---- MODULE Spec2Model ----
(***************************************************************************)
(* Model of flow-cli's account service (Accounts.Create, AddContract,      *)
(* RemoveContract, prepareTransaction), of the import replacer              *)
(* (ImportReplacer.Replace, getContractsLocations, absolutePath) and of the *)
(* project deployment loop that drives AddContract.                         *)
(***************************************************************************)
EXTENDS Integers, Sequences, FiniteSets, TLC

(***************************************************************************)
(* Paths.  A path string is modelled by its slash-separated elements and    *)
(* whether it is rooted: "./c/A.cdc" is [abs |-> FALSE, segs |-> <<".",     *)
(* "c", "A.cdc">>].  Two spellings of one location are two different        *)
(* values until path.Clean is applied.                                      *)
(***************************************************************************)
Path(abs, segs) == [abs |-> abs, segs |-> segs]

Rel(segs) == Path(FALSE, segs)

RECURSIVE CleanSegs(_, _, _)
\* Go's path.Clean over the elements: "." and empty elements are dropped, an
\* inner ".." removes the element before it, a ".." at the start of a rooted
\* path is dropped, a ".." at the start of a relative path is kept.
CleanSegs(abs, segs, out) ==
    IF segs = <<>> THEN out
    ELSE LET s == Head(segs)
             rest == Tail(segs)
         IN  IF s = "." \/ s = "" THEN CleanSegs(abs, rest, out)
             ELSE IF s = ".."
                  THEN IF out # <<>> /\ out[Len(out)] # ".."
                       THEN CleanSegs(abs, rest, SubSeq(out, 1, Len(out) - 1))
                       ELSE IF abs THEN CleanSegs(abs, rest, out)
                            ELSE CleanSegs(abs, rest, Append(out, ".."))
                  ELSE CleanSegs(abs, rest, Append(out, s))

\* path.Clean: the shortest equivalent path (the empty relative path is ".").
Clean(p) == Path(p.abs, CleanSegs(p.abs, p.segs, <<>>))

\* path.Dir: all but the last element, cleaned.
Dir(p) ==
    IF p.segs = <<>> THEN Clean(p)
    ELSE Clean(Path(p.abs, SubSeq(p.segs, 1, Len(p.segs) - 1)))

\* path.Join of two elements: joined by a slash, then cleaned.
Join(a, b) == Clean(Path(a.abs, a.segs \o b.segs))

\* absolutePath(basePath, relativePath)
absolutePath(basePath, relativePath) == Join(Dir(basePath), relativePath)

(***************************************************************************)
(* Addresses and errors.                                                    *)
(***************************************************************************)
\* flow.Address.String(): the canonical hex form, without a 0x prefix.
AddressString(a) == a

\* An alias target as configured: a hex string, with or without a 0x prefix.
HexString(prefixed, hex) == [prefixed |-> prefixed, hex |-> hex]

\* flow.HexToAddress: the prefix is dropped; only the hex digits remain.
HexToAddress(h) == h.hex

NoPath == Rel(<<>>)

\* An error value: its kind and the entities its message names.
Err(kind) == [kind |-> kind, name |-> "", account |-> "", names |-> {}, path |-> NoPath]

NoErr == Err("nil")

\* errUpdateNoDiff
errUpdateNoDiff == Err("update_no_diff")

(***************************************************************************)
(* Programs.  A contract's source text is its declared name, its import     *)
(* statements in order, and the rest of its text (body).  An import         *)
(* statement names either a raw path or, once replaced, an address.         *)
(***************************************************************************)
RawImport(p) == [kind |-> "path", path |-> p, addr |-> ""]

ResolvedImport(a) == [kind |-> "addr", path |-> NoPath, addr |-> a]

Code(name, imports, body) == [name |-> name, imports |-> imports, body |-> body]

\* flowkit.Script: the code, the arguments and the location of a contract.
\* A Program wraps the Script it was made from, so the Program's code is the
\* Script's code.
Script(code, args, location) == [code |-> code, args |-> args, location |-> location]

IsRaw(slot) == slot.kind = "path"

RECURSIVE RawPaths(_)
RawPaths(slots) ==
    IF slots = <<>> THEN <<>>
    ELSE IF IsRaw(Head(slots))
         THEN <<Head(slots).path>> \o RawPaths(Tail(slots))
         ELSE RawPaths(Tail(slots))

\* Program.Imports: the raw import paths of the source, in order.
Imports(code) == RawPaths(code.imports)

\* Program.HasImports
HasImports(code) == Imports(code) # <<>>

RECURSIVE ReplaceFirst(_, _, _)
ReplaceFirst(slots, from, to) ==
    IF slots = <<>> THEN <<>>
    ELSE IF IsRaw(Head(slots)) /\ Head(slots).path = from
         THEN <<ResolvedImport(to)>> \o Tail(slots)
         ELSE <<Head(slots)>> \o ReplaceFirst(Tail(slots), from, to)

\* Program.ReplaceImport: rewrites, in the program's own text, the import
\* statement of path `from` to the address `to`.
ReplaceImport(code, from, to) ==
    [code EXCEPT !.imports = ReplaceFirst(code.imports, from, to)]

(***************************************************************************)
(* ImportReplacer.                                                          *)
(***************************************************************************)
Put(m, k, v) == [x \in DOMAIN m \cup {k} |-> IF x = k THEN v ELSE m[x]]

EmptyMap == [x \in {} |-> ""]

RECURSIVE InsertContractsFirstWins(_, _)
\* the first loop keeping the entry a location already has
InsertContractsFirstWins(contracts, m) ==
    IF contracts = <<>> THEN m
    ELSE LET k == Clean(Head(contracts).location)
         IN  InsertContractsFirstWins(
                 Tail(contracts),
                 IF k \in DOMAIN m THEN m
                 ELSE Put(m, k, AddressString(Head(contracts).accountAddress)))

RECURSIVE InsertContracts(_, _)
\* the first loop of getContractsLocations, over the project contracts
InsertContracts(contracts, m) ==
    IF contracts = <<>> THEN m
    ELSE InsertContracts(
             Tail(contracts),
             Put(m, Clean(Head(contracts).location),
                 AddressString(Head(contracts).accountAddress)))

RECURSIVE InsertAliases(_, _, _)
\* the second loop of getContractsLocations, over the alias map in the order
\* the map iteration yields its keys
InsertAliases(aliases, order, m) ==
    IF order = <<>> THEN m
    ELSE InsertAliases(
             aliases, Tail(order),
             Put(m, Clean(Head(order)),
                 AddressString(HexToAddress(aliases[Head(order)]))))

\* the aliases inserted first, so that project contracts overwrite them
getContractsLocationsAliasesFirst(contracts, aliases, order) ==
    InsertContracts(contracts, InsertAliases(aliases, order, EmptyMap))

\* ImportReplacer.getContractsLocations
getContractsLocations(contracts, aliases, order) ==
    InsertAliases(aliases, order, InsertContracts(contracts, EmptyMap))

RECURSIVE ReplaceLoopSkipUnresolved(_, _, _, _)
\* the loop going on to the next import when one has no entry in the table
ReplaceLoopSkipUnresolved(imports, code, location, contractsLocations) ==
    IF imports = <<>> THEN [err |-> NoErr, code |-> code]
    ELSE LET imp == Head(imports)
             importLocation == Clean(absolutePath(location, imp))
         IN  IF importLocation \notin DOMAIN contractsLocations
             THEN ReplaceLoopSkipUnresolved(Tail(imports), code, location,
                                            contractsLocations)
             ELSE ReplaceLoopSkipUnresolved(
                      Tail(imports),
                      ReplaceImport(code, imp, contractsLocations[importLocation]),
                      location, contractsLocations)

RECURSIVE ReplaceLoop(_, _, _, _)
\* the loop of Replace over the imports read before the loop; it works on
\* the program's own text, and stops at the first unresolved import.
ReplaceLoop(imports, code, location, contractsLocations) ==
    IF imports = <<>> THEN [err |-> NoErr, code |-> code]
    ELSE LET imp == Head(imports)
             importLocation == Clean(absolutePath(location, imp))
         IN  IF importLocation \notin DOMAIN contractsLocations
             THEN [err |-> [Err("unresolved_import") EXCEPT !.path = imp],
                   code |-> code]
             ELSE ReplaceLoop(
                      Tail(imports),
                      ReplaceImport(code, imp, contractsLocations[importLocation]),
                      location, contractsLocations)

\* ImportReplacer.Replace on the program of `script`: the error returned and
\* the program's text when the call returns.
Replace(script, contracts, aliases, order) ==
    ReplaceLoop(Imports(script.code), script.code, script.location,
                getContractsLocations(contracts, aliases, order))

(***************************************************************************)
(* Bounds of the model.                                                     *)
(***************************************************************************)
\* operations (Create, AddContract, RemoveContract, Deploy) started in a run
MaxOps == 2

\* public keys given to one Create call
MaxKeys == 2

(***************************************************************************)
(* The values the operations are called with.                               *)
(***************************************************************************)
\* flow.AccountKeyWeightThreshold
AccountKeyWeightThreshold == 1000

\* flowkit.Account: a configured account, its address and its key index.
Account(name, address, keyIndex) ==
    [name |-> name, address |-> address, keyIndex |-> keyIndex]

Alice == Account("alice", "0a", 0)

Bob == Account("bob", "0b", 0)

\* bob's address with a key index the on-chain account does not have
BobKey1 == Account("bob-key1", "0b", 1)

NoAccount == Account("", "", 0)

Addresses == {"0a", "0b"}

\* the key indices an on-chain account holds
ChainKeyIndices == {0}

LocA == Rel(<<"c", "A.cdc">>)

LocB == Rel(<<"c", "B.cdc">>)

LocC == Rel(<<"c", "C.cdc">>)

ImpA == Rel(<<".", "A.cdc">>)

ImpAUp == Rel(<<"..", "c", "A.cdc">>)

ImpB == Rel(<<".", "B.cdc">>)

ImpX == Rel(<<".", "X.cdc">>)

\* the empty byte string
NoCode == Code("", <<>>, 0)

\* a source that does not parse
BadCode == Code("<syntax error>", <<>>, 0)

\* a source that parses and declares no contract
NoDeclCode == Code("", <<>>, 1)

CodeA1 == Code("A", <<>>, 1)

CodeA2 == Code("A", <<>>, 2)

CodeC1 == Code("C", <<RawImport(ImpA), RawImport(ImpB)>>, 1)

CodeC2 == Code("C", <<RawImport(ImpAUp), RawImport(ImpB)>>, 2)

CodeCx == Code("C", <<RawImport(ImpA), RawImport(ImpX)>>, 1)

NoScript == Script(NoCode, <<>>, NoPath)

\* the scripts AddContract is called with
Scripts ==
    { Script(CodeA1, <<>>, LocA), Script(CodeA2, <<>>, LocA),
      Script(CodeC1, <<"foo">>, LocC), Script(CodeC2, <<"foo">>, LocC),
      Script(CodeCx, <<>>, LocC),
      Script(BadCode, <<>>, LocA), Script(NoDeclCode, <<>>, LocA) }

Names == {"A", "C"}

\* project.Contract: a contract configured for deployment on the network
Contract(name, location, account, source, args) ==
    [name |-> name, location |-> location, accountAddress |-> account.address,
     account |-> account, source |-> source, args |-> args]

\* every ordering of the keys of a map: the orders a Go map iteration can take
Orders(m) ==
    { o \in [1..Cardinality(DOMAIN m) -> DOMAIN m] :
        \A i, j \in 1..Cardinality(DOMAIN m) : i # j => o[i] # o[j] }

(***************************************************************************)
(* Transactions and the chain behind the Gateway.                           *)
(***************************************************************************)
\* flowkit.Transaction: built by one of the New...Transaction functions with
\* the account as payer, then completed by prepareTransaction.
Tx(kind, account, name, code, args, keys, contracts) ==
    [kind |-> kind, payer |-> account.address, name |-> name, code |-> code,
     args |-> args, keys |-> keys, contracts |-> contracts,
     proposer |-> "", keyIndex |-> -1, seq |-> -1, ref |-> -1, signed |-> FALSE]

NoTx == Tx("none", NoAccount, "", NoCode, <<>>, <<>>, <<>>)

\* flowkit.NewAddAccountContractTransaction: a contracts.add transaction
NewAddAccountContractTransaction(account, name, code, args) ==
    Tx("add", account, name, code, args, <<>>, <<>>)

\* flowkit.NewUpdateAccountContractTransaction: a contracts.update transaction
NewUpdateAccountContractTransaction(account, name, code) ==
    Tx("update", account, name, code, <<>>, <<>>, <<>>)

\* flowkit.NewRemoveAccountContractTransaction
NewRemoveAccountContractTransaction(account, name) ==
    Tx("remove", account, name, NoCode, <<>>, <<>>, <<>>)

\* flowkit.NewCreateAccountTransaction
NewCreateAccountTransaction(signer, accKeys, contracts) ==
    Tx("create", signer, "", NoCode, <<>>, accKeys, contracts)

\* flow.TransactionResult of a sealed transaction
Result(error, created) == [error |-> error, created |-> created]

EmptyResults == [x \in {} |-> Result(NoErr, <<>>)]

\* the addresses a sealed creation transaction can report as created
CreatedEvents == {<<>>, <<"0c">>, <<"0d", "0c">>}

VARIABLES
    stateNil,        \* a.state is nil
    stateContracts,  \* state.DeploymentContractsByNetwork(network)
    stateAliases,    \* state.AliasesForNetwork(network)
    pc,              \* where the running operation is
    op,              \* the running operation's parameters and locals
    ret,             \* what the last operation returned
    calls,           \* the Gateway calls of the running operation, in order
    nOps,            \* operations started so far
    chainContracts,  \* on chain: address -> (contract name -> code)
    chainSeq,        \* on chain: address -> sequence number of its key
    height,          \* on chain: the latest block
    inflight,        \* transactions sent and not yet sealed
    results,         \* the awaited transaction's id -> its result, once sealed
    nextTx,          \* the identifier of the next transaction sent
    deploy,          \* the running Deploy
    rep              \* the last Replace call, checked on its own

vars ==
    <<stateNil, stateContracts, stateAliases, pc, op, ret, calls, nOps,
      chainContracts, chainSeq, height, inflight, results, nextTx, deploy, rep>>

cfgVars == <<stateNil, stateContracts, stateAliases>>

chainVars == <<chainContracts, chainSeq, height, inflight, results>>

\* flow.EmptyID
EmptyID == 0

Ret(id, updated, err, account) ==
    [id |-> id, updated |-> updated, err |-> err, account |-> account]

NoRet == Ret(EmptyID, FALSE, NoErr, "")

\* an operation returning only an error
Fail(err) == Ret(EmptyID, FALSE, err, "")

IdleOp ==
    [kind |-> "none", account |-> NoAccount, given |-> NoScript,
     script |-> NoScript, name |-> "", updateExisting |-> FALSE,
     checked |-> FALSE, exists |-> FALSE, fetched |-> NoCode,
     fetchedNames |-> {}, tx |-> NoTx, sentID |-> EmptyID,
     pubKeys |-> <<>>, keyWeights |-> <<>>, sigAlgo |-> <<>>,
     hashAlgo |-> <<>>, contractArgs |-> <<>>, newAddress |-> "",
     block |-> -1, proposerSeq |-> -1, resulted |-> FALSE,
     result |-> Result(NoErr, <<>>)]

NoDeploy ==
    [active |-> FALSE, update |-> FALSE, queue |-> <<>>, deployed |-> <<>>,
     err |-> NoErr, done |-> FALSE, calls |-> 0, identical |-> 0,
     skipped |-> 0, sent |-> 0, failed |-> 0, failedErr |-> NoErr]

NoRep == [called |-> FALSE, before |-> NoScript, after |-> NoCode,
          err |-> NoErr, table |-> EmptyMap]

Call(fn, arg) == <<fn, arg>>

(***************************************************************************)
(* The project configuration the account service is constructed with.      *)
(***************************************************************************)
\* contract A goes to alice, contract C (which imports A and B) to bob; B is
\* deployed outside the project and known by an alias.
ProjectContracts ==
    << Contract("A", LocA, Alice, CodeA1, <<>>),
       Contract("C", LocC, Bob, CodeC1, <<"foo">>) >>

ProjectAliases == [x \in {LocB} |-> HexString(TRUE, "0f")]

EmptyContracts == [x \in {} |-> NoCode]

\* the chain as a run finds it: no contract, or an earlier version of A
InitialContracts ==
    { [a \in Addresses |-> EmptyContracts],
      [a \in Addresses |-> IF a = "0a" THEN [n \in {"A"} |-> CodeA2]
                                       ELSE EmptyContracts] }

InitCommon ==
    /\ pc = "idle"
    /\ op = IdleOp
    /\ ret = NoRet
    /\ calls = <<>>
    /\ nOps = 0
    /\ chainSeq = [a \in Addresses |-> 0]
    /\ height = 0
    /\ inflight = {}
    /\ results = EmptyResults
    /\ nextTx = 1
    /\ deploy = NoDeploy
    /\ rep = NoRep

Init ==
    /\ stateNil \in BOOLEAN
    /\ stateContracts = ProjectContracts
    /\ stateAliases = ProjectAliases
    /\ chainContracts \in InitialContracts
    /\ InitCommon

(***************************************************************************)
(* The chain: a sent transaction is sealed at some later moment.            *)
(***************************************************************************)
GatewayErr(fn) == [Err("gateway") EXCEPT !.name = fn]

ExecutionErr(what) == [Err("execution") EXCEPT !.name = what]

\* the execution of transaction tx on contracts cs of its payer: the error,
\* if any, and the contracts afterwards
Execute(tx, cs) ==
    CASE tx.kind = "add" ->
           IF tx.name \in DOMAIN cs
           THEN [error |-> ExecutionErr("cannot overwrite existing contract"), cs |-> cs]
           ELSE [error |-> NoErr, cs |-> Put(cs, tx.name, tx.code)]
      [] tx.kind = "update" ->
           IF tx.name \notin DOMAIN cs
           THEN [error |-> ExecutionErr("cannot update non-existing contract"), cs |-> cs]
           ELSE [error |-> NoErr, cs |-> Put(cs, tx.name, tx.code)]
      [] tx.kind = "remove" ->
           IF tx.name \notin DOMAIN cs
           THEN [error |-> ExecutionErr("cannot remove non-existing contract"), cs |-> cs]
           ELSE [error |-> NoErr, cs |-> [n \in DOMAIN cs \ {tx.name} |-> cs[n]]]
      [] OTHER -> [error |-> NoErr, cs |-> cs]

\* The chain seals a transaction in flight.  A transaction whose proposal
\* sequence number is not the key's current one is rejected; otherwise the
\* number is used up and the transaction executes, or reverts.  The result
\* is kept for the one call that can ask for it: the GetTransactionResult of
\* the operation that sent the transaction and is waiting for it.
Seal ==
    \E t \in inflight, reverts \in BOOLEAN, created \in CreatedEvents :
        LET tx == t.tx
            seqOK == tx.seq = chainSeq[tx.proposer]
            ex == Execute(tx, chainContracts[tx.payer])
            error == IF ~seqOK THEN ExecutionErr("invalid sequence number")
                     ELSE IF reverts THEN ExecutionErr("reverted")
                     ELSE ex.error
            applied == seqOK /\ error = NoErr
        IN  /\ (tx.kind # "create" \/ ~applied) => created = <<>>
            /\ inflight' = inflight \ {t}
            /\ results' = IF pc = "wait" /\ op.sentID = t.id
                          THEN Put(results, t.id, Result(error, created))
                          ELSE results
            /\ chainSeq' = IF seqOK THEN [chainSeq EXCEPT ![tx.proposer] = @ + 1]
                           ELSE chainSeq
            /\ chainContracts' = IF applied
                                 THEN [chainContracts EXCEPT ![tx.payer] = ex.cs]
                                 ELSE chainContracts
            /\ height' = height + 1
            /\ UNCHANGED <<cfgVars, pc, op, ret, calls, nOps, nextTx, deploy, rep>>

(***************************************************************************)
(* Accounts.prepareTransaction, and the send and seal-wait that follow it   *)
(* in every operation.                                                      *)
(***************************************************************************)
\* an operation ends with return value r
Finish(r) ==
    /\ pc' = "done"
    /\ ret' = r

\* prepareTransaction with the latest-block error dropped: the operation
\* ends, reporting nothing
PrepareGetLatestBlockErrorDropped ==
    /\ pc = "prep_block"
    /\ calls' = Append(calls, Call("GetLatestBlock", ""))
    /\ \E gwFails \in BOOLEAN :
          IF gwFails
          THEN /\ Finish(NoRet)
               /\ UNCHANGED op
          ELSE /\ op' = [op EXCEPT !.block = height]
               /\ pc' = "prep_account"
               /\ UNCHANGED ret
    /\ UNCHANGED <<cfgVars, chainVars, nOps, nextTx, deploy, rep>>

\* prepareTransaction: a.gateway.GetLatestBlock()
PrepareGetLatestBlock ==
    /\ pc = "prep_block"
    /\ calls' = Append(calls, Call("GetLatestBlock", ""))
    /\ \E gwFails \in BOOLEAN :
          IF gwFails
          THEN /\ Finish(Fail(GatewayErr("GetLatestBlock")))
               /\ UNCHANGED op
          ELSE /\ op' = [op EXCEPT !.block = height]
               /\ pc' = "prep_account"
               /\ UNCHANGED ret
    /\ UNCHANGED <<cfgVars, chainVars, nOps, nextTx, deploy, rep>>

\* Transaction.SetProposer: the proposer's key at the signer's key index,
\* with the sequence number the fetched account reports for it
SetProposer(tx, proposer, keyIndex) ==
    IF keyIndex \notin proposer.keys
    THEN [err |-> Err("no proposer key at index"), tx |-> tx]
    ELSE [err |-> NoErr,
          tx |-> [tx EXCEPT !.proposer = proposer.address,
                            !.keyIndex = keyIndex,
                            !.seq = proposer.seq]]

\* prepareTransaction setting the proposer from the signer as it was when the
\* service was constructed, not from the account just fetched
PrepareGetAccountCachedProposer ==
    /\ pc = "prep_account"
    /\ calls' = Append(calls, Call("GetAccount", op.account.address))
    /\ \E gwFails \in BOOLEAN, signFails \in BOOLEAN :
          LET proposer == [address |-> op.account.address,
                           seq |-> chainSeq[op.account.address],
                           keys |-> ChainKeyIndices]
              withRef == [op.tx EXCEPT !.ref = op.block]
              sp == SetProposer(withRef, [proposer EXCEPT !.seq = 0],
                                op.account.keyIndex)
          IN  IF gwFails
              THEN /\ ~signFails
                   /\ Finish(Fail(GatewayErr("GetAccount")))
                   /\ UNCHANGED op
              ELSE IF sp.err # NoErr
              THEN /\ ~signFails
                   /\ Finish(Fail(sp.err))
                   /\ op' = [op EXCEPT !.tx = sp.tx, !.proposerSeq = proposer.seq]
              ELSE IF signFails
              THEN /\ Finish(Fail(Err("sign")))
                   /\ op' = [op EXCEPT !.tx = sp.tx, !.proposerSeq = proposer.seq]
              ELSE /\ op' = [op EXCEPT !.tx = [sp.tx EXCEPT !.signed = TRUE],
                                       !.proposerSeq = proposer.seq]
                   /\ pc' = "send"
                   /\ UNCHANGED ret
    /\ UNCHANGED <<cfgVars, chainVars, nOps, nextTx, deploy, rep>>

\* prepareTransaction: GetAccount of the signer, SetBlockReference,
\* SetProposer and Sign
PrepareGetAccount ==
    /\ pc = "prep_account"
    /\ calls' = Append(calls, Call("GetAccount", op.account.address))
    /\ \E gwFails \in BOOLEAN, signFails \in BOOLEAN :
          LET proposer == [address |-> op.account.address,
                           seq |-> chainSeq[op.account.address],
                           keys |-> ChainKeyIndices]
              withRef == [op.tx EXCEPT !.ref = op.block]
              sp == SetProposer(withRef, proposer, op.account.keyIndex)
          IN  IF gwFails
              THEN /\ ~signFails
                   /\ Finish(Fail(GatewayErr("GetAccount")))
                   /\ UNCHANGED op
              ELSE IF sp.err # NoErr
              THEN /\ ~signFails
                   /\ Finish(Fail(sp.err))
                   /\ op' = [op EXCEPT !.tx = sp.tx, !.proposerSeq = proposer.seq]
              ELSE IF signFails
              THEN /\ Finish(Fail(Err("sign")))
                   /\ op' = [op EXCEPT !.tx = sp.tx, !.proposerSeq = proposer.seq]
              ELSE /\ op' = [op EXCEPT !.tx = [sp.tx EXCEPT !.signed = TRUE],
                                       !.proposerSeq = proposer.seq]
                   /\ pc' = "send"
                   /\ UNCHANGED ret
    /\ UNCHANGED <<cfgVars, chainVars, nOps, nextTx, deploy, rep>>

\* a.gateway.SendSignedTransaction(tx) in operation `kind`
SendSignedTransaction(kind) ==
    /\ pc = "send"
    /\ op.kind = kind
    /\ calls' = Append(calls, Call("SendSignedTransaction", ""))
    /\ \E gwFails \in BOOLEAN :
          IF gwFails
          THEN /\ Finish(Fail(GatewayErr("SendSignedTransaction")))
               /\ UNCHANGED <<op, inflight, nextTx>>
          ELSE /\ inflight' = inflight \cup {[id |-> nextTx, tx |-> op.tx]}
               /\ op' = [op EXCEPT !.sentID = nextTx]
               /\ nextTx' = nextTx + 1
               /\ pc' = "wait"
               /\ UNCHANGED ret
    /\ UNCHANGED <<cfgVars, chainContracts, chainSeq, height, results, nOps, deploy, rep>>

\* a.gateway.GetTransactionResult(sentTx.ID(), true) in operation `kind`:
\* the call fails, or blocks until the transaction is sealed; `handled` is
\* what the operation then does with the result.
GetTransactionResult(kind, handled) ==
    /\ pc = "wait"
    /\ op.kind = kind
    /\ calls' = Append(calls, Call("GetTransactionResult", ""))
    /\ \/ /\ Finish(Fail(GatewayErr("GetTransactionResult")))
          /\ UNCHANGED op
       \/ /\ op.sentID \in DOMAIN results
          /\ handled
    /\ results' = EmptyResults
    /\ UNCHANGED <<cfgVars, chainContracts, chainSeq, height, inflight, nOps,
                   nextTx, deploy, rep>>

(***************************************************************************)
(* Accounts.AddContract                                                     *)
(***************************************************************************)
\* project.NewProgram: fails on a source that does not parse
Parses(code) == code # BadCode

\* Program.Name: the declared contract name; "" when there is none
ProgramName(code) == code.name

\* bytes.Equal
BytesEqual(a, b) == a = b

\* flowAccount.Contracts[name]: the code, and whether the name is present
ExistingContract(contracts, name) ==
    IF name \in DOMAIN contracts THEN contracts[name] ELSE NoCode

\* AddContract building the creation transaction with the text the caller
\* passed in, not with the program's code after the replacement
AddContractProgramGivenCode(account, contract, loadFails, order) ==
    LET out(err, script, name, tx) ==
            [err |-> err, script |-> script, name |-> name, tx |-> tx]
    IN  IF ~Parses(contract.code)
        THEN out(Err("parse"), contract, "", NoTx)
        ELSE LET r == IF ~HasImports(contract.code)
                      THEN [err |-> NoErr, code |-> contract.code]
                      ELSE IF stateNil
                      THEN [err |-> Err("panic: nil state"), code |-> contract.code]
                      ELSE IF loadFails
                      THEN [err |-> Err("deployment contracts"), code |-> contract.code]
                      ELSE Replace(contract, stateContracts, stateAliases, order)
                 script == [contract EXCEPT !.code = r.code]
                 name == ProgramName(script.code)
             IN  IF r.err # NoErr THEN out(r.err, script, "", NoTx)
                 ELSE IF name = "" THEN out(Err("no contract name"), script, "", NoTx)
                 ELSE out(NoErr, script, name,
                          NewAddAccountContractTransaction(
                              account, name, contract.code, script.args))

\* AddContract up to its first Gateway call: the program is made, its imports
\* are replaced, its name is read and the creation transaction is built.
\* Gives the error (if any), the script as the call leaves it, the name and
\* the transaction.
AddContractProgram(account, contract, loadFails, order) ==
    LET out(err, script, name, tx) ==
            [err |-> err, script |-> script, name |-> name, tx |-> tx]
    IN  IF ~Parses(contract.code)
        THEN out(Err("parse"), contract, "", NoTx)
        ELSE LET r == IF ~HasImports(contract.code)
                      THEN [err |-> NoErr, code |-> contract.code]
                      ELSE IF stateNil
                      THEN [err |-> Err("panic: nil state"), code |-> contract.code]
                      ELSE IF loadFails
                      THEN [err |-> Err("deployment contracts"), code |-> contract.code]
                      ELSE Replace(contract, stateContracts, stateAliases, order)
                 script == [contract EXCEPT !.code = r.code]
                 name == ProgramName(script.code)
             IN  IF r.err # NoErr THEN out(r.err, script, "", NoTx)
                 ELSE IF name = "" THEN out(Err("no contract name"), script, "", NoTx)
                 ELSE out(NoErr, script, name,
                          NewAddAccountContractTransaction(
                              account, name, script.code, script.args))

\* the start of an AddContract call, by a caller or by Deploy
AddContractStart(account, contract, updateExisting) ==
    /\ pc = "idle"
    /\ calls' = <<>>
    /\ \E loadFails \in BOOLEAN, order \in Orders(stateAliases) :
          LET p == AddContractProgram(account, contract, loadFails, order)
              started == [IdleOp EXCEPT !.kind = "add", !.account = account,
                                        !.given = contract, !.script = p.script,
                                        !.name = p.name, !.tx = p.tx,
                                        !.updateExisting = updateExisting]
          IN  /\ op' = started
              /\ IF p.err # NoErr
                 THEN Finish(Fail(p.err))
                 ELSE /\ pc' = "add_getAccount"
                      /\ ret' = NoRet
    /\ UNCHANGED <<cfgVars, chainVars, nextTx, rep>>

AddContractBegin ==
    /\ pc = "idle"
    /\ ~deploy.active
    /\ nOps < MaxOps
    /\ nOps' = nOps + 1
    /\ \E account \in {Alice, BobKey1}, contract \in Scripts,
          updateExisting \in BOOLEAN :
          AddContractStart(account, contract, updateExisting)
    /\ UNCHANGED deploy

ContractExistsErr(name, account) ==
    [Err("contract exists") EXCEPT !.name = name, !.account = account.name]

\* the update flag looked at before the comparison of the code
AddContractDecisionUpdateFirst(exists, noDiffInContract, updateExisting) ==
    IF exists /\ updateExisting THEN "update"
    ELSE IF exists /\ noDiffInContract THEN "nodiff"
    ELSE IF exists THEN "exists"
    ELSE "create"

\* the check for an existing contract left out when no update is asked for
AddContractDecisionNoExistsCheck(exists, noDiffInContract, updateExisting) ==
    IF exists /\ noDiffInContract THEN "nodiff"
    ELSE IF exists /\ updateExisting THEN "update"
    ELSE "create"

\* the update flag alone deciding for an update
AddContractDecisionUpdateByFlag(exists, noDiffInContract, updateExisting) ==
    IF exists /\ noDiffInContract THEN "nodiff"
    ELSE IF exists /\ ~updateExisting THEN "exists"
    ELSE IF updateExisting THEN "update"
    ELSE "create"

\* an identical contract reported as a conflict
AddContractDecisionNoDiffAsExists(exists, noDiffInContract, updateExisting) ==
    IF exists /\ (noDiffInContract \/ ~updateExisting) THEN "exists"
    ELSE IF exists /\ updateExisting THEN "update"
    ELSE "create"

\* AddContract's decision once the account is fetched: "nodiff", "exists",
\* "update" or "create"
AddContractDecision(exists, noDiffInContract, updateExisting) ==
    IF exists /\ noDiffInContract THEN "nodiff"
    ELSE IF exists /\ ~updateExisting THEN "exists"
    ELSE IF exists /\ updateExisting THEN "update"
    ELSE "create"

\* the update transaction built with the text the contract had when the
\* call was made, before its imports were replaced
UpdateCodeUnresolved(script, given) == given.code

\* the code the update transaction is built with: contract.Code(), the code
\* of the script the program wraps (script), not a copy of what the caller
\* passed in (given)
UpdateCode(script, given) == script.code

\* AddContract: the account is fetched and the contract compared with the
\* one it holds
AddContractGetAccount ==
    /\ pc = "add_getAccount"
    /\ calls' = Append(calls, Call("GetAccount", op.account.address))
    /\ \E gwFails \in BOOLEAN :
          IF gwFails
          THEN /\ Finish(Fail(GatewayErr("GetAccount")))
               /\ UNCHANGED op
          ELSE LET contracts == chainContracts[op.account.address]
                   exists == op.name \in DOMAIN contracts
                   existingContract == ExistingContract(contracts, op.name)
                   noDiffInContract == BytesEqual(op.script.code, existingContract)
                   d == AddContractDecision(exists, noDiffInContract, op.updateExisting)
                   seen == [op EXCEPT !.checked = TRUE, !.exists = exists,
                                      !.fetched = existingContract,
                                      !.fetchedNames = DOMAIN contracts]
               IN  CASE d = "nodiff" ->
                          /\ Finish(Fail(errUpdateNoDiff))
                          /\ op' = seen
                     [] d = "exists" ->
                          /\ Finish(Fail(ContractExistsErr(op.name, op.account)))
                          /\ op' = seen
                     [] d = "update" ->
                          /\ op' = [seen EXCEPT
                                      !.tx = NewUpdateAccountContractTransaction(
                                                 op.account, op.name, UpdateCode(op.script, op.given))]
                          /\ pc' = "prep_block"
                          /\ UNCHANGED ret
                     [] OTHER ->
                          /\ op' = seen
                          /\ pc' = "prep_block"
                          /\ UNCHANGED ret
    /\ UNCHANGED <<cfgVars, chainVars, nOps, nextTx, deploy, rep>>

AddContractSend == SendSignedTransaction("add")

\* AddContract after the seal, not looking at the result's error
AddContractResultErrorIgnored(trx) ==
    /\ op' = [op EXCEPT !.resulted = TRUE, !.result = trx]
    /\ Finish(Ret(op.sentID, op.updateExisting, NoErr, ""))

\* AddContract after the seal: the result's error, or the identifier and
\* the updateExisting flag
AddContractResult(trx) ==
    /\ op' = [op EXCEPT !.resulted = TRUE, !.result = trx]
    /\ IF trx.error # NoErr
       THEN Finish(Fail(trx.error))
       ELSE Finish(Ret(op.sentID, op.updateExisting, NoErr, ""))

AddContractWait == GetTransactionResult("add", AddContractResult(results[op.sentID]))

(***************************************************************************)
(* Accounts.RemoveContract                                                  *)
(***************************************************************************)
NotExistingErr(contractName, existingContracts) ==
    [Err("can not remove a non-existing contract") EXCEPT
        !.name = contractName, !.names = existingContracts]

\* the lookup answering yes for every name
ContainsAlways(existingContracts, contractName) == TRUE

\* slices.Contains(existingContracts, contractName)
Contains(existingContracts, contractName) == contractName \in existingContracts

\* RemoveContract up to prepareTransaction: the account is fetched and the
\* name looked up among its contracts
RemoveContractBegin ==
    /\ pc = "idle"
    /\ ~deploy.active
    /\ nOps < MaxOps
    /\ nOps' = nOps + 1
    /\ \E account \in {Alice, Bob}, contractName \in Names,
          gwFails \in BOOLEAN :
          LET existingContracts == DOMAIN chainContracts[account.address]
              started == [IdleOp EXCEPT !.kind = "remove", !.account = account,
                                        !.name = contractName]
              seen == [started EXCEPT
                         !.checked = TRUE,
                         !.exists = contractName \in existingContracts,
                         !.fetchedNames = existingContracts]
          IN  /\ calls' = <<Call("GetAccount", account.address)>>
              /\ IF gwFails
                 THEN /\ Finish(Fail(GatewayErr("GetAccount")))
                      /\ op' = started
                 ELSE IF ~Contains(existingContracts, contractName)
                 THEN /\ Finish(Fail(NotExistingErr(contractName, existingContracts)))
                      /\ op' = seen
                 ELSE /\ op' = [seen EXCEPT
                                  !.tx = NewRemoveAccountContractTransaction(
                                             account, contractName)]
                      /\ pc' = "prep_block"
                      /\ ret' = NoRet
    /\ UNCHANGED <<cfgVars, chainVars, nextTx, deploy, rep>>

RemoveContractSend == SendSignedTransaction("remove")

RemoveContractResult(txr) ==
    /\ op' = [op EXCEPT !.resulted = TRUE, !.result = txr]
    /\ IF txr.error # NoErr
       THEN Finish(Fail(txr.error))
       ELSE Finish(Ret(op.sentID, FALSE, NoErr, ""))

RemoveContractWait == GetTransactionResult("remove", RemoveContractResult(results[op.sentID]))

(***************************************************************************)
(* Accounts.Create                                                          *)
(***************************************************************************)
SeqsUpTo(S, n) == UNION {[1..k -> S] : k \in 0..n}

SigAlgos == {"ECDSA_P256", "UNKNOWN"}

Weights == {500, AccountKeyWeightThreshold}

\* a name:path contract argument, as its colon-separated fields
ContractArgs == {<<"A", "fileA">>, <<"nocolon">>, <<"A", "nofile">>, <<"A", "dir", "fileA">>}

\* the files state.ReadFile can read, by path (the fields of the path
\* between its colons)
Files == [f \in {<<"fileA">>} |-> CodeA1]

\* the length of strings.SplitN(contract, ":", 2)
SplitN2Len(fields) == IF Len(fields) >= 2 THEN 2 ELSE 1

\* the check catching only more weights than keys
WeightsMismatchOnlyMore(pubKeys, keyWeights) ==
    Len(keyWeights) > Len(pubKeys)

\* the check of the number of weights against the number of keys
WeightsMismatch(pubKeys, keyWeights) ==
    Len(keyWeights) > 0 /\ Len(pubKeys) # Len(keyWeights)

MismatchErr == Err("number of keys and weights provided must match")

\* the position compared one off: the last key misses its weight
KeyWeightOffByOne(keyWeights, i) ==
    IF Len(keyWeights) > i THEN keyWeights[i] ELSE AccountKeyWeightThreshold

\* the weight of the key at position i (counted from 1)
KeyWeight(keyWeights, i) ==
    IF Len(keyWeights) > i - 1 THEN keyWeights[i] ELSE AccountKeyWeightThreshold

\* flow.AccountKey.Validate: the signature and hash algorithms must be
\* known and compatible
Validate(accKey) == accKey.sigAlgo # "UNKNOWN" /\ accKey.hashAlgo # "UNKNOWN"

RECURSIVE BuildKeys(_, _, _, _, _, _)
\* the loop over the public keys, from position i on
BuildKeys(pubKeys, keyWeights, sigAlgo, hashAlgo, i, accKeys) ==
    IF i > Len(pubKeys) THEN [err |-> NoErr, keys |-> accKeys]
    ELSE IF i > Len(sigAlgo) \/ i > Len(hashAlgo)
    THEN [err |-> Err("panic: index out of range"), keys |-> accKeys]
    ELSE LET accKey == [publicKey |-> pubKeys[i], sigAlgo |-> sigAlgo[i],
                        hashAlgo |-> hashAlgo[i],
                        weight |-> KeyWeight(keyWeights, i)]
         IN  IF ~Validate(accKey)
             THEN [err |-> Err("invalid account key"), keys |-> accKeys]
             ELSE BuildKeys(pubKeys, keyWeights, sigAlgo, hashAlgo, i + 1,
                            Append(accKeys, accKey))

RECURSIVE BuildContracts(_, _)
\* the loop over the contract arguments
BuildContracts(contractArgs, contracts) ==
    IF contractArgs = <<>> THEN [err |-> NoErr, contracts |-> contracts]
    ELSE LET contract == Head(contractArgs)
         IN  IF SplitN2Len(contract) # 2
             THEN [err |-> Err("wrong format for contract"), contracts |-> contracts]
             ELSE IF Tail(contract) \notin DOMAIN Files
             THEN [err |-> Err("read file"), contracts |-> contracts]
             ELSE BuildContracts(
                      Tail(contractArgs),
                      Append(contracts, [name |-> contract[1],
                                         source |-> Files[Tail(contract)]]))

\* Create up to prepareTransaction: the error, if any, and the transaction
CreateTransaction(signer, pubKeys, keyWeights, sigAlgo, hashAlgo, contractArgs) ==
    IF stateNil THEN [err |-> Err("does not exist"), tx |-> NoTx]
    ELSE IF WeightsMismatch(pubKeys, keyWeights)
    THEN [err |-> MismatchErr, tx |-> NoTx]
    ELSE LET k == BuildKeys(pubKeys, keyWeights, sigAlgo, hashAlgo, 1, <<>>)
             c == BuildContracts(contractArgs, <<>>)
         IN  IF k.err # NoErr THEN [err |-> k.err, tx |-> NoTx]
             ELSE IF c.err # NoErr THEN [err |-> c.err, tx |-> NoTx]
             ELSE [err |-> NoErr,
                   tx |-> NewCreateAccountTransaction(signer, k.keys, c.contracts)]

CreateStart(signer, pubKeys, keyWeights, sigAlgo, hashAlgo, contractArgs) ==
    /\ pc = "idle"
    /\ ~deploy.active
    /\ nOps < MaxOps
    /\ nOps' = nOps + 1
    /\ calls' = <<>>
    /\ LET t == CreateTransaction(signer, pubKeys, keyWeights, sigAlgo,
                                  hashAlgo, contractArgs)
       IN  /\ op' = [IdleOp EXCEPT !.kind = "create", !.account = signer,
                                   !.pubKeys = pubKeys, !.keyWeights = keyWeights,
                                   !.sigAlgo = sigAlgo, !.hashAlgo = hashAlgo,
                                   !.contractArgs = contractArgs, !.tx = t.tx]
           /\ IF t.err # NoErr
              THEN Finish(Fail(t.err))
              ELSE /\ pc' = "prep_block"
                   /\ ret' = NoRet
    /\ UNCHANGED <<cfgVars, chainVars, nextTx, deploy, rep>>

PubKeys == {<<>>} \cup {[i \in 1..k |-> i] : k \in 1..MaxKeys}

\* Create with every combination of its arguments
CreateBeginAll ==
    /\ pc = "idle"
    /\ \E signer \in {Alice}, pubKeys \in PubKeys,
          keyWeights \in SeqsUpTo(Weights, MaxKeys),
          sigAlgo \in SeqsUpTo(SigAlgos, MaxKeys),
          hashAlgo \in SeqsUpTo({"SHA3_256"}, MaxKeys) \cup {<<"UNKNOWN">>},
          contractArgs \in SeqsUpTo(ContractArgs, 2) :
          CreateStart(signer, pubKeys, keyWeights, sigAlgo, hashAlgo, contractArgs)

\* Create as the other operations' neighbour: one key, with or without a
\* weight, and no contract
CreateBegin ==
    /\ pc = "idle"
    /\ \E signer \in {Alice}, keyWeights \in {<<>>, <<500>>} :
          CreateStart(signer, <<1>>, keyWeights, <<"ECDSA_P256">>, <<"SHA3_256">>, <<>>)

CreateSend == SendSignedTransaction("create")

\* Create after the seal, taking the last created address
CreateResultLastAddress(result) ==
    LET got == [op EXCEPT !.resulted = TRUE, !.result = result]
    IN  IF result.error # NoErr
        THEN Finish(Fail(result.error)) /\ op' = got
        ELSE IF Len(result.created) = 0
        THEN /\ Finish(Fail(Err("new account address couldn't be fetched")))
             /\ op' = got
        ELSE /\ op' = [got EXCEPT !.newAddress = result.created[Len(result.created)]]
             /\ pc' = "create_getAccount"
             /\ UNCHANGED ret

\* Create after the seal: the result's error, or the created address
CreateResult(result) ==
    LET got == [op EXCEPT !.resulted = TRUE, !.result = result]
    IN  IF result.error # NoErr
        THEN Finish(Fail(result.error)) /\ op' = got
        ELSE IF Len(result.created) = 0
        THEN /\ Finish(Fail(Err("new account address couldn't be fetched")))
             /\ op' = got
        ELSE /\ op' = [got EXCEPT !.newAddress = result.created[1]]
             /\ pc' = "create_getAccount"
             /\ UNCHANGED ret

CreateWait == GetTransactionResult("create", CreateResult(results[op.sentID]))

\* Create's return: a.gateway.GetAccount(*newAccountAddress[0])
CreateGetAccount ==
    /\ pc = "create_getAccount"
    /\ calls' = Append(calls, Call("GetAccount", op.newAddress))
    /\ \E gwFails \in BOOLEAN :
          IF gwFails THEN Finish(Fail(GatewayErr("GetAccount")))
          ELSE Finish(Ret(EmptyID, FALSE, NoErr, op.newAddress))
    /\ UNCHANGED <<cfgVars, chainVars, op, nOps, nextTx, deploy, rep>>

\* the caller takes the return value; the service is ready for the next call
Return ==
    /\ pc = "done"
    /\ ~deploy.active
    /\ pc' = "idle"
    /\ op' = IdleOp
    /\ ret' = NoRet
    /\ calls' = <<>>
    /\ UNCHANGED <<cfgVars, chainVars, nOps, nextTx, deploy, rep>>

(***************************************************************************)
(* Project.Deploy: the contracts configured for the network are resolved    *)
(* and handed to AddContract one after the other.                           *)
(***************************************************************************)
RECURSIVE ResolveAll(_, _, _)
\* every configured contract with imports goes through Replace; the first
\* failure stops the run
ResolveAll(contracts, order, out) ==
    IF contracts = <<>> THEN [err |-> NoErr, contracts |-> out]
    ELSE LET c == Head(contracts)
             r == IF HasImports(c.source)
                  THEN Replace(Script(c.source, c.args, c.location),
                               stateContracts, stateAliases, order)
                  ELSE [err |-> NoErr, code |-> c.source]
         IN  IF r.err # NoErr THEN [err |-> r.err, contracts |-> out]
             ELSE ResolveAll(Tail(contracts), order,
                             Append(out, [c EXCEPT !.source = r.code]))

DeployBegin ==
    /\ pc = "idle"
    /\ ~deploy.active
    /\ nOps < MaxOps
    /\ nOps' = nOps + 1
    /\ \E update \in BOOLEAN, order \in Orders(stateAliases) :
          LET r == ResolveAll(stateContracts, order, <<>>)
              started == [NoDeploy EXCEPT !.active = TRUE, !.update = update]
          IN  IF stateNil
              THEN deploy' = [started EXCEPT !.err = Err("does not exist"), !.done = TRUE]
              ELSE IF r.err # NoErr
              THEN deploy' = [started EXCEPT !.err = r.err, !.done = TRUE]
              ELSE deploy' = [started EXCEPT !.queue = r.contracts,
                                             !.done = (r.contracts = <<>>)]
    /\ UNCHANGED <<cfgVars, chainVars, pc, op, ret, calls, nextTx, rep>>

\* Deploy calls AddContract for the next contract of the run
DeployAddContract ==
    /\ pc = "idle"
    /\ deploy.active
    /\ ~deploy.done
    /\ LET c == Head(deploy.queue)
       IN  AddContractStart(c.account, Script(c.source, c.args, c.location),
                            deploy.update)
    /\ UNCHANGED <<nOps, deploy>>

\* a Deploy that logs a failed contract and goes on with the next one
DeployOutcomeContinue(err) ==
    IF err # NoErr THEN "skip" ELSE "deployed"

\* how Deploy takes what AddContract returned: "skip" for the no-diff
\* signal, "abort" for any other error, "deployed" otherwise
DeployOutcome(err) ==
    IF err = errUpdateNoDiff THEN "skip"
    ELSE IF err # NoErr THEN "abort"
    ELSE "deployed"

SentCount(cs) == Len(SelectSeq(cs, LAMBDA c : c[1] = "SendSignedTransaction"))

\* Deploy takes the result of the AddContract call it made
DeployCollect ==
    /\ deploy.active
    /\ ~deploy.done
    /\ pc = "done"
    /\ LET o == DeployOutcome(ret.err)
           rest == Tail(deploy.queue)
           same == op.checked /\ op.exists /\ op.fetched = op.script.code
           bad == ret.err \notin {NoErr, errUpdateNoDiff}
           seen == [deploy EXCEPT !.calls = @ + 1,
                                  !.sent = @ + SentCount(calls),
                                  !.identical = @ + (IF same THEN 1 ELSE 0),
                                  !.failed = @ + (IF bad THEN 1 ELSE 0),
                                  !.failedErr = IF bad THEN ret.err ELSE @]
       IN  CASE o = "skip" ->
                  deploy' = [seen EXCEPT !.queue = rest, !.skipped = @ + 1,
                                         !.done = (rest = <<>>)]
             [] o = "abort" ->
                  deploy' = [seen EXCEPT !.err = ret.err, !.done = TRUE]
             [] OTHER ->
                  deploy' = [seen EXCEPT !.queue = rest,
                                         !.deployed = Append(@, Head(deploy.queue)),
                                         !.done = (rest = <<>>)]
    /\ pc' = "idle"
    /\ op' = IdleOp
    /\ ret' = NoRet
    /\ calls' = <<>>
    /\ UNCHANGED <<cfgVars, chainVars, nOps, nextTx, rep>>

\* Deploy returns its list of contracts, or its error
DeployReturn ==
    /\ deploy.active
    /\ deploy.done
    /\ deploy' = NoDeploy
    /\ UNCHANGED <<cfgVars, chainVars, pc, op, ret, calls, nOps, nextTx, rep>>

Next ==
    \/ AddContractBegin
    \/ AddContractGetAccount
    \/ AddContractSend
    \/ AddContractWait
    \/ RemoveContractBegin
    \/ RemoveContractSend
    \/ RemoveContractWait
    \/ CreateBegin
    \/ CreateSend
    \/ CreateWait
    \/ CreateGetAccount
    \/ PrepareGetLatestBlock
    \/ PrepareGetAccount
    \/ DeployBegin
    \/ DeployAddContract
    \/ DeployCollect
    \/ DeployReturn
    \/ Return
    \/ Seal

Spec == Init /\ [][Next]_vars

(***************************************************************************)
(* Create on its own: one call, with every combination of its arguments.    *)
(***************************************************************************)
InitCreate ==
    /\ stateNil \in BOOLEAN
    /\ stateContracts = ProjectContracts
    /\ stateAliases = ProjectAliases
    /\ chainContracts = [a \in Addresses |-> EmptyContracts]
    /\ InitCommon

NextCreate ==
    \/ CreateBeginAll
    \/ PrepareGetLatestBlock
    \/ PrepareGetAccount
    \/ CreateSend
    \/ CreateWait
    \/ CreateGetAccount
    \/ Seal

SpecCreate == InitCreate /\ [][NextCreate]_vars

(***************************************************************************)
(* ImportReplacer.Replace on its own: programs with up to MaxImports        *)
(* imports, against every combination of project contracts and aliases.     *)
(***************************************************************************)
MaxImports == 2

\* the same location as LocA and LocB, spelled differently
LocADot == Rel(<<".", "c", "A.cdc">>)

LocBDot == Rel(<<"c", ".", "B.cdc">>)

ReplaceContracts ==
    { <<>>,
      << Contract("A", LocA, Alice, CodeA1, <<>>) >>,
      << Contract("A", LocA, Alice, CodeA1, <<>>),
         Contract("B", LocB, Bob, CodeA2, <<>>) >>,
      << Contract("A", LocA, Alice, CodeA1, <<>>),
         Contract("A", LocADot, Bob, CodeA1, <<>>) >>,
      << Contract("A", LocA, Alice, CodeA1, <<>>),
         Contract("A", LocADot, Bob, CodeA1, <<>>),
         Contract("B", LocB, Bob, CodeA2, <<>>) >> }

ReplaceAliases ==
    { EmptyMap,
      [x \in {LocB} |-> HexString(TRUE, "0f")],
      [x \in {LocADot} |-> HexString(FALSE, "0e")],
      [x \in {LocB, LocBDot} |-> IF x = LocB THEN HexString(TRUE, "0f")
                                             ELSE HexString(FALSE, "0e")] }

ReplaceScripts ==
    { Script(Code(IF loc = LocA THEN "A" ELSE "C",
                  [i \in DOMAIN imps |-> RawImport(imps[i])], 1), <<>>, loc) :
        imps \in SeqsUpTo({ImpA, ImpAUp, ImpB, ImpX}, MaxImports),
        loc \in {LocC, Rel(<<"C.cdc">>), LocA} }

InitReplace ==
    /\ stateNil = FALSE
    /\ stateContracts \in ReplaceContracts
    /\ stateAliases \in ReplaceAliases
    /\ chainContracts = [a \in Addresses |-> EmptyContracts]
    /\ InitCommon

\* a call of Replace on a program, with the replacer made of the configured
\* contracts and aliases
DoReplace ==
    /\ ~rep.called
    /\ \E script \in ReplaceScripts, order \in Orders(stateAliases) :
          LET r == Replace(script, stateContracts, stateAliases, order)
          IN  rep' = [called |-> TRUE, before |-> script, after |-> r.code,
                      err |-> r.err,
                      table |-> getContractsLocations(stateContracts, stateAliases, order)]
    /\ UNCHANGED <<cfgVars, chainVars, pc, op, ret, calls, nOps, nextTx, deploy>>

NextReplace == DoReplace

SpecReplace == InitReplace /\ [][NextReplace]_vars

(***************************************************************************)
(* Properties of AddContract, RemoveContract and Deploy (under Spec).       *)
(***************************************************************************)
WaitCount(cs) == Len(SelectSeq(cs, LAMBDA c : c[1] = "GetTransactionResult"))

\* the one Gateway call made so far is the fetch of the operation's account
OnlyAccountFetched == calls = <<Call("GetAccount", op.account.address)>>

\* AddContract has fetched the account and found the contract's name on it
AddFound == op.kind = "add" /\ op.checked /\ op.exists

\* ... with the very code the call would deploy
AddFoundSame == AddFound /\ op.fetched = op.script.code

\* ... with other code
AddFoundOther == AddFound /\ op.fetched # op.script.code

\* the error of a preparation step or of the send
PreparationErr(err) == err.kind \in {"gateway", "no proposer key at index", "sign"}

\* the account of the running operation holds code c under the operation's name
Stored(c) ==
    /\ op.name \in DOMAIN chainContracts[op.account.address]
    /\ chainContracts[op.account.address][op.name] = c

\* C1: an AddContract call that finds the contract on the account with
\* byte-identical (import-resolved) code returns errUpdateNoDiff right after
\* the account fetch, whatever updateExisting is: no transaction is built
\* into a submission, SendSignedTransaction is not called, and nothing of
\* this call is in flight, so the account's contracts are what they were.
C1_NoDiffNoTransaction ==
    AddFoundSame =>
        /\ pc = "done"
        /\ ret = Fail(errUpdateNoDiff)
        /\ OnlyAccountFetched
        /\ SentCount(calls) = 0
        /\ op.sentID = EmptyID
        /\ op.tx.kind # "update"

C1_Witness ==
    /\ AddFoundSame
    /\ pc = "done"
    /\ op.updateExisting
    /\ HasImports(op.given.code)

\* C2: an AddContract call without updateExisting that finds the contract on
\* the account with different code fails with the "contract exists" error
\* naming the contract and the account; no transaction is submitted.
C2_ExistsWithoutUpdate ==
    (AddFoundOther /\ ~op.updateExisting) =>
        /\ pc = "done"
        /\ ret = Fail(ContractExistsErr(op.name, op.account))
        /\ ret.err.name = op.name
        /\ ret.err.account = op.account.name
        /\ OnlyAccountFetched
        /\ SentCount(calls) = 0
        /\ op.sentID = EmptyID

C2_Witness ==
    /\ AddFoundOther
    /\ ~op.updateExisting
    /\ pc = "done"
    /\ op.fetched = CodeA2
    /\ op.script.code = CodeA1

\* C3: an AddContract call with updateExisting that finds the contract on
\* the account with different code builds an update transaction carrying
\* the new code; SendSignedTransaction is called at most once, exactly once
\* unless a preparation step fails (the call then returns that step's
\* error), and when the call returns without error the account stores
\* exactly the new code under that name.
C3_UpdateStoresNewCode ==
    (AddFoundOther /\ op.updateExisting) =>
        /\ op.tx.kind = "update"
        /\ op.tx.name = op.name
        /\ op.tx.code = op.script.code
        /\ SentCount(calls) <= 1
        /\ pc = "wait" => SentCount(calls) = 1
        /\ (pc = "done" /\ SentCount(calls) = 0) => PreparationErr(ret.err)
        /\ (pc = "done" /\ ret.err = NoErr) =>
              /\ SentCount(calls) = 1
              /\ ret.id = op.sentID
              /\ ret.id # EmptyID
              /\ Stored(op.script.code)
              /\ ~HasImports(op.given.code) => Stored(op.given.code)

C3_Witness ==
    /\ AddFoundOther
    /\ op.updateExisting
    /\ pc = "done"
    /\ ret.err = NoErr
    /\ HasImports(op.given.code)

\* C4: an AddContract call that finds no contract of that name on the
\* account builds a creation (contracts.add) transaction paid by the target
\* account; it is submitted at most once and its result awaited at most
\* once, exactly once each when the call returns without error, and the
\* account then stores the code, which is the original source when the
\* contract has no imports.  In a Deploy run the target account is the one
\* configured for the contract.
C4_CreationTransaction ==
    (op.kind = "add" /\ op.checked /\ ~op.exists) =>
        /\ op.tx.kind = "add"
        /\ op.tx.payer = op.account.address
        /\ op.tx.name = op.name
        /\ op.tx.code = op.script.code
        /\ ~HasImports(op.given.code) => op.tx.code = op.given.code
        /\ deploy.active => op.tx.payer = Head(deploy.queue).accountAddress
        /\ SentCount(calls) <= 1
        /\ WaitCount(calls) <= 1
        /\ (pc = "done" /\ SentCount(calls) = 0) => PreparationErr(ret.err)
        /\ (pc = "done" /\ ret.err = NoErr) =>
              /\ SentCount(calls) = 1
              /\ WaitCount(calls) = 1
              /\ Stored(op.tx.code)

C4_Witness ==
    /\ op.kind = "add"
    /\ op.checked
    /\ ~op.exists
    /\ deploy.active
    /\ op.given.code = CodeA1
    /\ pc = "done"
    /\ ret.err = NoErr
    /\ op.tx.payer = "0a"

\* C5: a Deploy run with updateExisting in which every AddContract call
\* made so far found the contract on its account with identical code has no
\* error: each no-diff outcome is a skip and the run goes on to the next
\* contract, nothing is sent, the run ends only after every configured
\* contract, and errUpdateNoDiff is never the error of a Deploy.
C5_RedeployUnchanged ==
    /\ deploy.err # errUpdateNoDiff
    /\ (deploy.update /\ deploy.calls > 0 /\ deploy.identical = deploy.calls) =>
          /\ deploy.err = NoErr
          /\ deploy.skipped = deploy.calls
          /\ deploy.sent = 0
          /\ deploy.done => deploy.calls = Len(stateContracts)

C5_Witness ==
    /\ deploy.done
    /\ deploy.update
    /\ deploy.identical = Len(stateContracts)
    /\ deploy.identical = 2
    /\ deploy.err = NoErr

\* C8: a RemoveContract call that finds no contract of the given name on
\* the freshly fetched account fails with the error listing the account's
\* contract names; the account fetch is its only Gateway call (no block
\* fetch, no signing, no send) and no transaction is built.
C8_RemoveMissing ==
    (op.kind = "remove" /\ op.checked /\ ~op.exists) =>
        /\ pc = "done"
        /\ ret = Fail(NotExistingErr(op.name, op.fetchedNames))
        /\ ret.err.names = op.fetchedNames
        /\ OnlyAccountFetched
        /\ op.tx = NoTx
        /\ op.sentID = EmptyID

C8_Witness ==
    /\ op.kind = "remove"
    /\ op.checked
    /\ ~op.exists
    /\ op.fetchedNames = {"A"}
    /\ op.name = "C"
    /\ pc = "done"

(***************************************************************************)
(* Properties of Replace (under SpecReplace).                               *)
(***************************************************************************)
\* the normalized location an import of the replaced program stands for
ImportLocation(imp) == Clean(absolutePath(rep.before.location, imp))

\* the addresses the aliases give for a normalized location
AliasAddresses(loc) ==
    { AddressString(HexToAddress(stateAliases[k])) :
        k \in {x \in DOMAIN stateAliases : Clean(x) = loc} }

\* the positions of the project contracts at a normalized location
ContractsAt(loc) ==
    { i \in 1..Len(stateContracts) : Clean(stateContracts[i].location) = loc }

LastOf(S) == CHOOSE i \in S : \A j \in S : j <= i

\* every import of the program before the call has an entry in the table
TableCovers ==
    \A i \in 1..Len(rep.before.code.imports) :
        LET loc == ImportLocation(rep.before.code.imports[i].path)
        IN  AliasAddresses(loc) # {} \/ ContractsAt(loc) # {}

NoRawImportLeft ==
    \A i \in 1..Len(rep.after.imports) : ~IsRaw(rep.after.imports[i])

\* C6: when an import of the program has no entry in the table, Replace
\* fails and the program passed in has the same text after the call as
\* before it.
C6_NoPartialSubstitution ==
    (rep.called /\ ~TableCovers) =>
        /\ rep.err.kind = "unresolved_import"
        /\ rep.after = rep.before.code

\* C7 as stated: with a table covering every import, Replace succeeds, no
\* raw import path is left, and every import of a project contract is
\* replaced by the address of that contract's account.
C7_ProjectImportGetsItsAccount ==
    (rep.called /\ TableCovers) =>
        /\ rep.err = NoErr
        /\ NoRawImportLeft
        /\ \A i \in 1..Len(rep.before.code.imports) :
              \A c \in ContractsAt(ImportLocation(rep.before.code.imports[i].path)) :
                  rep.after.imports[i] =
                      ResolvedImport(AddressString(stateContracts[c].accountAddress))

\* C7 as amended: with a table covering every import, Replace succeeds, no
\* raw import path is left, and every import is replaced by the address the
\* table holds for its normalized location: an alias address when an alias
\* has that location, otherwise the account address of the last project
\* contract configured at that location.
C7_ImportGetsTableAddress ==
    (rep.called /\ TableCovers) =>
        /\ rep.err = NoErr
        /\ NoRawImportLeft
        /\ Len(rep.after.imports) = Len(rep.before.code.imports)
        /\ rep.after.name = rep.before.code.name
        /\ rep.after.body = rep.before.code.body
        /\ \A i \in 1..Len(rep.before.code.imports) :
              LET loc == ImportLocation(rep.before.code.imports[i].path)
                  got == rep.after.imports[i]
              IN  IF AliasAddresses(loc) # {}
                  THEN got.kind = "addr" /\ got.addr \in AliasAddresses(loc)
                  ELSE got = ResolvedImport(AddressString(
                                 stateContracts[LastOf(ContractsAt(loc))].accountAddress))

\* two imports, one of a project contract whose location also has an alias
C7_Witness ==
    /\ rep.called
    /\ TableCovers
    /\ rep.err = NoErr
    /\ Len(rep.before.code.imports) = 2
    /\ \E i \in 1..2 :
          LET loc == ImportLocation(rep.before.code.imports[i].path)
          IN  AliasAddresses(loc) # {} /\ ContractsAt(loc) # {}
    /\ \E i \in 1..2 :
          LET loc == ImportLocation(rep.before.code.imports[i].path)
          IN  AliasAddresses(loc) = {} /\ Cardinality(ContractsAt(loc)) = 1

(***************************************************************************)
(* Properties of Create (under SpecCreate).                                 *)
(***************************************************************************)
\* the arguments of the running Create fail one of its validations: the
\* weights do not match the keys, a key that is built is invalid, or a
\* contract argument has no ':'
CreateArgsInvalid ==
    \/ Len(op.keyWeights) > 0 /\ Len(op.pubKeys) # Len(op.keyWeights)
    \/ \E i \in 1..Len(op.pubKeys) :
          /\ i <= Len(op.sigAlgo)
          /\ i <= Len(op.hashAlgo)
          /\ op.sigAlgo[i] = "UNKNOWN" \/ op.hashAlgo[i] = "UNKNOWN"
    \/ \E j \in 1..Len(op.contractArgs) : Len(op.contractArgs[j]) < 2

ValidationErrKinds ==
    { "number of keys and weights provided must match", "invalid account key",
      "wrong format for contract" }

\* C9: a Create call whose arguments fail a validation makes no Gateway
\* call at all: it has returned before GetLatestBlock, GetAccount or
\* SendSignedTransaction, and a validation error is never returned after a
\* Gateway call.
C9_ValidationBeforeGateway ==
    /\ (op.kind = "create" /\ CreateArgsInvalid) =>
          /\ pc = "done"
          /\ calls = <<>>
          /\ ret.err # NoErr
          /\ op.tx = NoTx
          /\ inflight = {}
    /\ (op.kind = "create" /\ ret.err.kind \in ValidationErrKinds) => calls = <<>>

\* one weight for two keys
C9_Witness ==
    /\ op.kind = "create"
    /\ pc = "done"
    /\ Len(op.pubKeys) = 2
    /\ Len(op.keyWeights) = 1
    /\ ret.err = MismatchErr
    /\ calls = <<>>

\* C10: the transaction Create builds has one key per public key; without
\* weights every key has the threshold weight, and with weights (one per
\* key) key i has weight i of the list.
C10_KeyWeights ==
    (op.kind = "create" /\ op.tx # NoTx) =>
        /\ Len(op.tx.keys) = Len(op.pubKeys)
        /\ \A i \in 1..Len(op.tx.keys) :
              /\ op.tx.keys[i].publicKey = op.pubKeys[i]
              /\ op.tx.keys[i].weight =
                    IF op.keyWeights = <<>> THEN AccountKeyWeightThreshold
                    ELSE op.keyWeights[i]

\* two keys with their own weights, below the threshold for the second
C10_Witness ==
    /\ op.kind = "create"
    /\ pc = "send"
    /\ Len(op.tx.keys) = 2
    /\ op.keyWeights = <<AccountKeyWeightThreshold, 500>>
    /\ op.tx.keys[2].weight = 500

(***************************************************************************)
(* Properties of the transaction pipeline (under Spec).                     *)
(***************************************************************************)
CallCount(cs, fn) == Len(SelectSeq(cs, LAMBDA c : c[1] = fn))

LastCall(cs) == IF cs = <<>> THEN "" ELSE cs[Len(cs)][1]

\* the GetAccount calls an operation makes before prepareTransaction
AccountFetchesBefore(kind) == IF kind \in {"add", "remove"} THEN 1 ELSE 0

\* the operation ended right after the GetLatestBlock of prepareTransaction
PrepFailedAtBlock == pc = "done" /\ LastCall(calls) = "GetLatestBlock"

\* the operation ended after the GetAccount of prepareTransaction: the fetch,
\* SetProposer or Sign failed
PrepFailedAtAccount ==
    /\ pc = "done"
    /\ CallCount(calls, "GetLatestBlock") = 1
    /\ LastCall(calls) = "GetAccount"
    /\ SentCount(calls) = 0

\* C11: an operation whose preparation fails at the latest-block fetch, the
\* proposer fetch, SetProposer or Sign returns that step's error with the
\* empty identifier and no account, has not called SendSignedTransaction,
\* and has made each preparation call once only.
C11_PreparationFailureAborts ==
    /\ CallCount(calls, "GetLatestBlock") <= 1
    /\ PrepFailedAtBlock =>
          /\ ret = Fail(GatewayErr("GetLatestBlock"))
          /\ CallCount(calls, "GetAccount") = AccountFetchesBefore(op.kind)
    /\ PrepFailedAtAccount =>
          /\ ret.err \in {GatewayErr("GetAccount"),
                          Err("no proposer key at index"), Err("sign")}
          /\ ret = Fail(ret.err)
          /\ CallCount(calls, "GetAccount") = AccountFetchesBefore(op.kind) + 1
          /\ op.account.keyIndex \notin ChainKeyIndices => ret.err # Err("sign")
          /\ ret.err = Err("sign") => ~op.tx.signed
    /\ (PrepFailedAtBlock \/ PrepFailedAtAccount) =>
          /\ SentCount(calls) = 0
          /\ op.sentID = EmptyID
          /\ op.kind \in {"add", "remove", "create"}

C11_Witness ==
    /\ PrepFailedAtAccount
    /\ op.kind = "add"
    /\ ret.err = Err("no proposer key at index")

\* the running operation has received the result of its sealed transaction,
\* and the result carries an execution error
SealedWithError == op.resulted /\ op.result.error # NoErr

\* C12: an operation whose sealed transaction result carries an execution
\* error ends there and returns exactly that error, with the empty
\* identifier (AddContract, RemoveContract), no update flag and no account
\* (Create, which does not go on to fetch an account).
C12_ExecutionErrorSurfaced ==
    SealedWithError =>
        /\ pc = "done"
        /\ ret.err = op.result.error
        /\ ret.err.kind = "execution"
        /\ ret.id = EmptyID
        /\ ~ret.updated
        /\ ret.account = ""
        /\ LastCall(calls) = "GetTransactionResult"
        /\ op.kind \in {"add", "remove", "create"}

C12_Witness ==
    /\ SealedWithError
    /\ op.kind = "add"
    /\ op.result.error = ExecutionErr("reverted")
    /\ pc = "done"

\* C13: whatever operations have been called one after another, no two
\* transactions signed by the same account are in flight at the same time.
C13_OneInFlightPerAccount ==
    \A t1, t2 \in inflight : t1.tx.payer = t2.tx.payer => t1 = t2

\* the normalized location of the program Replace was called on
OwnLocation == Clean(rep.before.location)

\* the project contracts with the target account of the contract being
\* resolved (the ones at the program's location) changed to address a
Retargeted(a) ==
    [i \in 1..Len(stateContracts) |->
        IF i \in ContractsAt(OwnLocation)
        THEN [stateContracts[i] EXCEPT !.accountAddress = a]
        ELSE stateContracts[i]]

TargetAddresses == Addresses \cup {"0c"}

\* Replace gives the same outcome whatever the target address of the
\* contract being resolved is
SameForEveryTarget ==
    \A a \in TargetAddresses, order \in Orders(stateAliases) :
        Replace(rep.before, Retargeted(a), stateAliases, order)
            = Replace(rep.before, stateContracts, stateAliases, order)

\* C14: for every program, one importing its own location included, two
\* runs of Replace that differ only in the target address of the contract
\* being resolved give the same resolved source.
C14_TargetIndependent == rep.called => SameForEveryTarget

\* Create has received the result of its sealed transaction, without error
CreateSealed == op.kind = "create" /\ op.resulted /\ op.result.error = NoErr

\* C15: after the creation transaction seals without error, a result with
\* no created address makes Create return the "new account address couldn't
\* be fetched" error with no GetAccount call beyond the proposer's; any
\* other result makes Create call GetAccount once for the first created
\* address and return what that call returns.
C15_CreatedAddress ==
    CreateSealed =>
        IF Len(op.result.created) = 0
        THEN /\ pc = "done"
             /\ ret = Fail(Err("new account address couldn't be fetched"))
             /\ LastCall(calls) = "GetTransactionResult"
             /\ CallCount(calls, "GetAccount") = 1
        ELSE /\ op.newAddress = op.result.created[1]
             /\ pc \in {"create_getAccount", "done"}
             /\ pc = "create_getAccount" =>
                   /\ LastCall(calls) = "GetTransactionResult"
                   /\ CallCount(calls, "GetAccount") = 1
             /\ pc = "done" =>
                   /\ calls[Len(calls)] = Call("GetAccount", op.result.created[1])
                   /\ CallCount(calls, "GetAccount") = 2
                   /\ ret \in {Ret(EmptyID, FALSE, NoErr, op.result.created[1]),
                               Fail(GatewayErr("GetAccount"))}

C15_Witness ==
    /\ CreateSealed
    /\ Len(op.result.created) = 2
    /\ pc = "done"
    /\ ret.account = op.result.created[1]

(***************************************************************************)
(* Properties of Deploy (under Spec).                                       *)
(***************************************************************************)
\* C16: in a Deploy run, once AddContract has failed for a contract (with
\* anything but the no-diff signal) or an import could not be resolved, the
\* run is over: the failing call was the last one made, the contracts
\* configured after it are still waiting and get no AddContract call, hence
\* no transaction, and the run's error is the error of the failing contract.
C16_DeployAbortsOnFailure ==
    /\ (deploy.active /\ deploy.failed > 0) =>
          /\ deploy.failed = 1
          /\ deploy.done
          /\ deploy.err = deploy.failedErr
          /\ deploy.err \notin {NoErr, errUpdateNoDiff}
          /\ pc = "idle"
          /\ op = IdleOp
          /\ deploy.queue # <<>>
          /\ deploy.calls = Len(deploy.deployed) + deploy.skipped + 1
          /\ deploy.calls + Len(deploy.queue) - 1 = Len(stateContracts)
          /\ deploy.sent <= deploy.calls
    /\ (deploy.active /\ deploy.err # NoErr) => (deploy.done /\ pc = "idle")

C16_Witness ==
    /\ deploy.active
    /\ deploy.failed = 1
    /\ deploy.calls = 1
    /\ Len(deploy.queue) = 2
    /\ deploy.err.kind = "contract exists"

\* the position of the SendSignedTransaction call in the operation's calls
SendPosition == CHOOSE i \in 1..Len(calls) : calls[i][1] = "SendSignedTransaction"

\* C17: an operation that has called SendSignedTransaction called, right
\* before it and in this order, GetLatestBlock and GetAccount for the
\* signer; the transaction it submitted is signed, refers to the block that
\* GetLatestBlock returned, and proposes with the signer's key index and
\* the sequence number that GetAccount reported in this operation.  Every
\* transaction in flight went through the same steps.
C17_FreshPreparation ==
    /\ SentCount(calls) > 0 =>
          /\ SentCount(calls) = 1
          /\ SendPosition >= 3
          /\ calls[SendPosition - 2] = Call("GetLatestBlock", "")
          /\ calls[SendPosition - 1] = Call("GetAccount", op.account.address)
          /\ CallCount(calls, "GetLatestBlock") = 1
          /\ op.tx.signed
          /\ op.tx.ref = op.block
          /\ op.tx.ref >= 0
          /\ op.tx.proposer = op.account.address
          /\ op.tx.payer = op.account.address
          /\ op.tx.keyIndex = op.account.keyIndex
          /\ op.tx.seq = op.proposerSeq
          /\ op.sentID # EmptyID =>
                \A t \in inflight : t.id = op.sentID => t.tx = op.tx
    /\ \A t \in inflight :
          /\ t.tx.signed
          /\ t.tx.ref >= 0
          /\ t.tx.seq >= 0
          /\ t.tx.proposer = t.tx.payer

C17_Witness ==
    /\ pc = "wait"
    /\ op.kind = "remove"
    /\ op.proposerSeq = 1
    /\ op.tx.seq = 1
    /\ \E t \in inflight : t.id = op.sentID

(***************************************************************************)
(* Properties of AddContract's return values (under Spec).                  *)
(***************************************************************************)
\* AddContract has returned without error
AddSucceeded == op.kind = "add" /\ pc = "done" /\ ret.err = NoErr

\* C18: when AddContract returns without error it returns the identifier of
\* the transaction it submitted, and its flag is true exactly when that
\* transaction was an update transaction (the contract was on the account),
\* false when it was a creation transaction.
C18_UpdatedFlag ==
    AddSucceeded =>
        /\ ret.id = op.sentID
        /\ ret.id # EmptyID
        /\ ret.updated <=> op.tx.kind = "update"
        /\ ret.updated <=> op.exists

\* the imports of a script that have no entry in the table made of the
\* configured contracts and aliases
Unresolvable(script) ==
    { i \in 1..Len(script.code.imports) :
        /\ IsRaw(script.code.imports[i])
        /\ LET loc == Clean(Join(Dir(script.location), script.code.imports[i].path))
           IN  AliasAddresses(loc) = {} /\ ContractsAt(loc) = {} }

FirstOf(S) == CHOOSE i \in S : \A j \in S : i <= j

\* AddContract was called with a program that parses and has an import the
\* configuration cannot resolve, and the configured contracts were loaded
AddUnresolvable ==
    /\ op.kind = "add"
    /\ ~stateNil
    /\ Parses(op.given.code)
    /\ Unresolvable(op.given) # {}
    /\ ret.err.kind # "deployment contracts"

\* C19: an AddContract call whose program has an import without an entry in
\* the network's contracts and aliases returns the unresolved-import error
\* naming the first such import, with the empty identifier; it makes no
\* Gateway call at all and has built and submitted no transaction.
C19_UnresolvedImportFailsFirst ==
    AddUnresolvable =>
        /\ pc = "done"
        /\ ret = Fail([Err("unresolved_import") EXCEPT
                          !.path = op.given.code.imports[FirstOf(Unresolvable(op.given))].path])
        /\ calls = <<>>
        /\ op.tx = NoTx
        /\ op.sentID = EmptyID
        /\ ~op.checked
        /\ \A t \in inflight : t.id < nextTx

C19_Witness ==
    /\ AddUnresolvable
    /\ pc = "done"
    /\ op.updateExisting
    /\ FirstOf(Unresolvable(op.given)) = 2

\* the normalized locations of the configured contracts and aliases
ConfiguredLocations ==
    { Clean(stateContracts[i].location) : i \in 1..Len(stateContracts) }
        \cup { Clean(k) : k \in DOMAIN stateAliases }

\* C20: the table Replace works with has one entry for every normalized
\* location of a configured contract or alias and no other; a location an
\* alias has maps to an alias address, whether or not a project contract
\* shares it, and any other location maps to the account address of the
\* last project contract configured there.
C20_TableConstruction ==
    rep.called =>
        /\ DOMAIN rep.table = ConfiguredLocations
        /\ \A loc \in DOMAIN rep.table :
              /\ Clean(loc) = loc
              /\ IF AliasAddresses(loc) # {}
                 THEN rep.table[loc] \in AliasAddresses(loc)
                 ELSE rep.table[loc] = AddressString(
                          stateContracts[LastOf(ContractsAt(loc))].accountAddress)

C20_Witness ==
    /\ rep.called
    /\ \E loc \in DOMAIN rep.table :
          /\ AliasAddresses(loc) # {}
          /\ ContractsAt(loc) # {}
          /\ rep.table[loc] # AddressString(
                 stateContracts[LastOf(ContractsAt(loc))].accountAddress)
    /\ \E loc \in DOMAIN rep.table :
          /\ AliasAddresses(loc) = {}
          /\ Cardinality(ContractsAt(loc)) = 2
          /\ rep.table[loc] = "0b"

(***************************************************************************)
(* The code AddContract submits (under Spec).                               *)
(***************************************************************************)
\* AddContract has compared the program's code with the account's contract
\* and gone on to submit a transaction
AddProceeds ==
    /\ op.kind = "add"
    /\ op.checked
    /\ ~(pc = "done" /\ ret.err.kind \in {"update_no_diff", "contract exists"})

\* C21: the transaction AddContract goes on with after the no-diff check,
\* creation or update, carries the program's import-resolved code, which is
\* the code that check compared with the account's contract (and found
\* different, when the contract exists); no contract transaction in flight
\* and no contract stored on an account has an import path left in it.
C21_SubmittedCodeIsComparedCode ==
    /\ AddProceeds =>
          /\ op.tx.kind = IF op.exists THEN "update" ELSE "add"
          /\ op.tx.code = op.script.code
          /\ ~HasImports(op.tx.code)
          /\ op.exists => op.fetched # op.tx.code
          /\ \A t \in inflight : t.id = op.sentID => t.tx.code = op.script.code
    /\ \A t \in inflight :
          t.tx.kind \in {"add", "update"} => ~HasImports(t.tx.code)
    /\ \A a \in Addresses : \A n \in DOMAIN chainContracts[a] :
          ~HasImports(chainContracts[a][n])

C21_Witness ==
    /\ AddProceeds
    /\ op.exists
    /\ op.tx.kind = "update"
    /\ HasImports(op.given.code)
    /\ pc = "wait"
    /\ \E t \in inflight : t.id = op.sentID

(***************************************************************************)
(* Determinism of Replace (under SpecReplace).                              *)
(***************************************************************************)
\* C22: for the program Replace was called on and the configured contracts
\* and aliases, every run of Replace gives the same error or the same
\* resolved source, whatever order the iteration over the alias map takes.
C22_ReplaceDeterministic ==
    rep.called =>
        \A o1, o2 \in Orders(stateAliases) :
            Replace(rep.before, stateContracts, stateAliases, o1)
                = Replace(rep.before, stateContracts, stateAliases, o2)

(***************************************************************************)
(* The algorithm lists of Create (under SpecCreate).                        *)
(***************************************************************************)
\* Create was called with no weights or with one weight per key
CreateWeightsAccepted ==
    /\ op.kind = "create"
    /\ Len(op.keyWeights) \in {0, Len(op.pubKeys)}

\* C23: a Create call with no weights, or one weight per key, never ends in
\* the run-time panic of reading sigAlgo or hashAlgo at an index beyond its
\* length: it returns an account or an error value.
C23_NoIndexOutOfRange ==
    CreateWeightsAccepted => ret.err.kind # "panic: index out of range"

=============================================================================
